---- MODULE Spec2Model ----
(***************************************************************************)
(* A model of guide_travel.py, the Streamlit travel guide planner: the     *)
(* session state and the script run (form submission, generation, output,  *)
(* PDF export, reset), and its pure functions estimate_budget,             *)
(* build_prompt and markdown_to_flowables.                                 *)
(*                                                                         *)
(* Texts are sequences of one-character tokens.  Python floats are IEEE    *)
(* binary64 numbers, modelled exactly: a sign, a 53 bit significand kept   *)
(* as a sequence of limbs (least significant first) and a binary exponent, *)
(* every operation rounding to nearest, ties to even.                      *)
(***************************************************************************)
EXTENDS Integers, Sequences, FiniteSets, TLC

VARIABLES
    session_state,   \* st.session_state: the form's fields and plan_md
    trigger,         \* what started the last script run: a submit, a reset, a rerun
    page,            \* what the last script run put on the page, in order
    request,         \* the prompts sent to the external service in the last run
    calls,           \* the number of calls the external service has recorded
    last_call,       \* how the most recent of these calls ended
    pdf_file,        \* the contents of travel_plan.pdf on disk
    interpreter,     \* which sum() the Python interpreter has
    estimates,       \* estimate_budget's results, by arguments
    budget_args,     \* estimate_budget under test: its inputs
    budget_out,      \* ... and what it returned
    md_text,         \* markdown_to_flowables under test: its input
    flow,            \* ... and what it returned
    prompt_args,     \* build_prompt under test: its inputs
    prompt,          \* ... and what it returned
    applied          \* whether the function under test has been applied

vars == <<session_state, trigger, page, request, calls, last_call, pdf_file,
          interpreter, estimates,
          budget_args, budget_out, md_text, flow, prompt_args, prompt, applied>>

----------------------------------------------------------------------------
(* Natural numbers of any size: sequences of limbs of LimbBits bits each,  *)
(* least significant first, the last limb not zero; <<>> is zero.  A limb  *)
(* times a limb plus a carry stays below 2^31.                             *)

LimbBits == 15

Radix == 2 ^ LimbBits

Trim(x) ==
    LET nz == {j \in 1..Len(x) : x[j] # 0}
    IN  IF nz = {} THEN <<>>
        ELSE SubSeq(x, 1, CHOOSE j \in nz : \A k \in nz : k <= j)

RECURSIVE NatLimbs(_)
NatLimbs(n) == IF n = 0 THEN <<>> ELSE <<n % Radix>> \o NatLimbs(n \div Radix)

Limb(x, j) == IF j >= 1 /\ j <= Len(x) THEN x[j] ELSE 0

RECURSIVE AddC(_, _, _)
AddC(a, b, c) ==
    IF a = <<>> /\ b = <<>>
    THEN IF c = 0 THEN <<>> ELSE <<c>>
    ELSE LET t == Limb(a, 1) + Limb(b, 1) + c
         IN  <<t % Radix>> \o AddC(IF a = <<>> THEN a ELSE Tail(a),
                                   IF b = <<>> THEN b ELSE Tail(b), t \div Radix)

BigAdd(a, b) == AddC(a, b, 0)

\* a - b for a >= b
RECURSIVE SubB(_, _, _)
SubB(a, b, br) ==
    IF a = <<>>
    THEN <<>>
    ELSE LET t == a[1] - Limb(b, 1) - br
         IN  <<IF t < 0 THEN t + Radix ELSE t>>
                 \o SubB(Tail(a), IF b = <<>> THEN b ELSE Tail(b),
                         IF t < 0 THEN 1 ELSE 0)

BigSub(a, b) == Trim(SubB(a, b, 0))

\* -1, 0, 1 as a < b, a = b, a > b
BigCmp(a, b) ==
    IF Len(a) # Len(b) THEN (IF Len(a) > Len(b) THEN 1 ELSE -1)
    ELSE LET diff == {j \in 1..Len(a) : a[j] # b[j]}
         IN  IF diff = {} THEN 0
             ELSE LET j == CHOOSE i \in diff : \A k \in diff : k <= i
                  IN  IF a[j] > b[j] THEN 1 ELSE -1

\* a * k + c for a limb k
RECURSIVE MulLimb(_, _, _)
MulLimb(a, k, c) ==
    IF a = <<>>
    THEN IF c = 0 THEN <<>> ELSE <<c>>
    ELSE LET t == a[1] * k + c
         IN  <<t % Radix>> \o MulLimb(Tail(a), k, t \div Radix)

RECURSIVE BigMul(_, _)
BigMul(a, b) ==
    IF a = <<>> \/ b = <<>> THEN <<>>
    ELSE Trim(BigAdd(MulLimb(b, a[1], 0), <<0>> \o BigMul(Tail(a), b)))

\* quotient and remainder of a by a positive integer below Radix
RECURSIVE DivRem(_, _)
DivRem(a, den) ==
    IF a = <<>> THEN [q |-> <<>>, r |-> 0]
    ELSE LET hi == DivRem(Tail(a), den)
             t == hi.r * Radix + a[1]
         IN  [q |-> <<t \div den>> \o hi.q, r |-> t % den]

\* a * 2^z
ShiftLeft(x, z) ==
    LET a == z \div LimbBits
        r == z % LimbBits
    IN  Trim([j \in 1..(Len(x) + a + 1) |->
                (Limb(x, j - a) % (2 ^ (LimbBits - r))) * (2 ^ r)
                  + Limb(x, j - a - 1) \div (2 ^ (LimbBits - r))])

\* a \div 2^d
ShiftRight(x, d) ==
    LET a == d \div LimbBits
        r == d % LimbBits
    IN  IF Len(x) <= a THEN <<>>
        ELSE Trim([j \in 1..(Len(x) - a) |->
                     Limb(x, j + a) \div (2 ^ r)
                       + (Limb(x, j + a + 1) % (2 ^ r)) * (2 ^ (LimbBits - r))])

\* the number of bits of x, and its i-th bit (the lowest is bit 1)
BitLen(x) ==
    IF x = <<>> THEN 0
    ELSE LimbBits * (Len(x) - 1)
           + (CHOOSE k \in 1..LimbBits :
                 2 ^ (k - 1) <= x[Len(x)] /\ x[Len(x)] < 2 ^ k)

Bit(x, i) ==
    (Limb(x, (i - 1) \div LimbBits + 1) \div (2 ^ ((i - 1) % LimbBits))) % 2

\* x % 2^n # 0
LowBitsSet(x, n) ==
    \E j \in 1..Len(x) :
        /\ (j - 1) * LimbBits < n
        /\ IF j * LimbBits <= n THEN x[j] # 0
           ELSE x[j] % (2 ^ (n - (j - 1) * LimbBits)) # 0

----------------------------------------------------------------------------
(* Python's float: [s, m, e] is (-1)^s * m * 2^e, m of exactly Precision   *)
(* bits, or <<>> for zero.  The exponent's range is not modelled: no       *)
(* value of the model comes near an overflow or a subnormal number.        *)

Precision == 53

FZero == [s |-> 0, m |-> <<>>, e |-> 0]

\* round to nearest, ties to even, the number (-1)^s * x * 2^e, where
\* sticky says that the exact value is a little more than x * 2^e
Round(s, x, e, sticky) ==
    LET L == BitLen(x)
    IN  IF L = 0 THEN FZero
        ELSE IF L <= Precision
        THEN [s |-> s, m |-> ShiftLeft(x, Precision - L), e |-> e - (Precision - L)]
        ELSE LET d     == L - Precision
                 q     == ShiftRight(x, d)
                 guard == Bit(x, d)
                 rest  == sticky \/ LowBitsSet(x, d - 1)
                 up    == guard = 1 /\ (rest \/ Bit(q, 1) = 1)
                 q2    == IF up THEN BigAdd(q, <<1>>) ELSE q
             IN  IF BitLen(q2) > Precision
                 THEN [s |-> s, m |-> ShiftRight(q2, 1), e |-> e + d + 1]
                 ELSE [s |-> s, m |-> q2, e |-> e + d]

\* float(k) of an int
IntToFloat(k) ==
    IF k < 0 THEN Round(1, NatLimbs(0 - k), 0, FALSE)
    ELSE Round(0, NatLimbs(k), 0, FALSE)

\* the float a decimal literal num/den denotes (0.4 is FloatLit(4, 10))
FloatLit(num, den) ==
    LET d == DivRem(ShiftLeft(NatLimbs(num), 2 * Precision), den)
    IN  Round(0, Trim(d.q), 0 - 2 * Precision, d.r # 0)

FMul(x, y) ==
    IF x.m = <<>> \/ y.m = <<>> THEN FZero
    ELSE Round((x.s + y.s) % 2, BigMul(x.m, y.m), x.e + y.e, FALSE)

FNeg(x) == IF x.m = <<>> THEN x ELSE [x EXCEPT !.s = 1 - x.s]

FAdd(x, y) ==
    IF x.m = <<>> THEN y
    ELSE IF y.m = <<>> THEN x
    ELSE LET e == IF x.e <= y.e THEN x.e ELSE y.e
             a == ShiftLeft(x.m, x.e - e)
             b == ShiftLeft(y.m, y.e - e)
             c == BigCmp(a, b)
         IN  IF x.s = y.s THEN Round(x.s, BigAdd(a, b), e, FALSE)
             ELSE IF c = 0 THEN FZero
             ELSE IF c > 0 THEN Round(x.s, BigSub(a, b), e, FALSE)
             ELSE Round(y.s, BigSub(b, a), e, FALSE)

FSub(x, y) == FAdd(x, FNeg(y))

\* fabs(x) >= fabs(y)
FAbsGe(x, y) ==
    IF y.m = <<>> THEN TRUE
    ELSE IF x.m = <<>> THEN FALSE
    ELSE IF x.e # y.e THEN x.e > y.e
    ELSE BigCmp(x.m, y.m) >= 0

\* int * float and float * int: the int is converted to a float first
IntTimesFloat(k, x) == FMul(IntToFloat(k), x)

FloatTimesInt(x, k) == FMul(x, IntToFloat(k))

----------------------------------------------------------------------------
(* sum(breakdown.values()): the built-in starts from the int 0 and adds    *)
(* the float values in insertion order.  CPython up to 3.11 adds them one  *)
(* by one; from 3.12 on it keeps a compensation term (Neumaier) once the   *)
(* running result is a float.  Which one runs depends on the interpreter.  *)

SumModes == {"sequential", "compensated"}

RECURSIVE SumSeq(_, _)
SumSeq(acc, xs) ==
    IF xs = <<>> THEN acc ELSE SumSeq(FAdd(acc, xs[1]), Tail(xs))

RECURSIVE SumComp(_, _, _)
SumComp(acc, c, xs) ==
    IF xs = <<>>
    THEN IF c.m # <<>> THEN FAdd(acc, c) ELSE acc
    ELSE LET x == xs[1]
             t == FAdd(acc, x)
             c2 == IF FAbsGe(acc, x)
                   THEN FAdd(c, FAdd(FSub(acc, t), x))
                   ELSE FAdd(c, FAdd(FSub(x, t), acc))
         IN  SumComp(t, c2, Tail(xs))

py_sum(mode, xs) ==
    IF xs = <<>> THEN FZero
    ELSE LET first == FAdd(IntToFloat(0), xs[1])
         IN  IF mode = "sequential" THEN SumSeq(first, Tail(xs))
             ELSE SumComp(first, FZero, Tail(xs))

Categories == <<"Accommodation", "Food", "Transport", "Activities">>

\* the weights with Transport's taken for 0.1: they no longer add up to 1
Weight_transport_tenth(k) ==
    CASE k = "Accommodation" -> FloatLit(4, 10)
      [] k = "Food"          -> FloatLit(25, 100)
      [] k = "Transport"     -> FloatLit(1, 10)
      [] k = "Activities"    -> FloatLit(2, 10)

Weight(k) ==
    CASE k = "Accommodation" -> FloatLit(4, 10)
      [] k = "Food"          -> FloatLit(25, 100)
      [] k = "Transport"     -> FloatLit(15, 100)
      [] k = "Activities"    -> FloatLit(2, 10)

\* the dict breakdown is the sequence of its (key, value) pairs in insertion order
estimate_budget(mode, days, daily_budget, num_people) ==
    LET total_daily == daily_budget * num_people
        breakdown == [i \in 1..Len(Categories) |->
                        [key |-> Categories[i],
                         value |-> FloatTimesInt(
                            IntTimesFloat(total_daily, Weight(Categories[i])), days)]]
    IN  [breakdown |-> breakdown,
         total |-> py_sum(mode, [i \in 1..Len(breakdown) |-> breakdown[i].value])]

----------------------------------------------------------------------------
(* Text.  A str is a sequence of tokens: a token is one character ("a",    *)
(* " ", "#"), a control character under its name, or, in the prompt, a     *)
(* literal of the template that no operation looks into ("Cities: ").      *)

LF  == "LF"
CR  == "CR"
TAB == "TAB"
VT  == "VT"
FF  == "FF"
FS  == "FS"
GS  == "GS"
RS  == "RS"
US  == "US"
NEL == "NEL"
LS  == "LS"
PS  == "PS"
NBSP == "NBSP"

\* the line boundaries of str.splitlines()
LineBoundaries == {LF, CR, VT, FF, FS, GS, RS, NEL, LS, PS}

\* what str.strip() removes
Whitespace == LineBoundaries \cup {" ", TAB, US, NBSP}

\* s.split(sep) for a one-character sep
RECURSIVE SplitFrom(_, _, _, _)
SplitFrom(s, sep, cur, i) ==
    IF i > Len(s) THEN <<cur>>
    ELSE IF s[i] = sep THEN <<cur>> \o SplitFrom(s, sep, <<>>, i + 1)
    ELSE SplitFrom(s, sep, Append(cur, s[i]), i + 1)

split(s, sep) == SplitFrom(s, sep, <<>>, 1)

\* s.splitlines(): the lines of s without their ends, "\r\n" one end, and
\* no empty last line after a final line end
RECURSIVE SplitLinesFrom(_, _, _)
SplitLinesFrom(s, cur, i) ==
    IF i > Len(s) THEN (IF cur = <<>> THEN <<>> ELSE <<cur>>)
    ELSE IF s[i] \in LineBoundaries
    THEN <<cur>> \o SplitLinesFrom(s, <<>>,
                      IF s[i] = CR /\ i < Len(s) /\ s[i + 1] = LF
                      THEN i + 2 ELSE i + 1)
    ELSE SplitLinesFrom(s, Append(cur, s[i]), i + 1)

\* the lines that "\n" alone separates: md_text.split("\n")
splitlines_lf_only(s) == split(s, LF)

splitlines(s) == SplitLinesFrom(s, <<>>, 1)

\* sep.join(parts)
RECURSIVE join(_, _)
join(sep, parts) ==
    IF parts = <<>> THEN <<>>
    ELSE IF Len(parts) = 1 THEN parts[1]
    ELSE parts[1] \o sep \o join(sep, Tail(parts))

\* s.strip()
strip(s) ==
    LET keep == {i \in 1..Len(s) : s[i] \notin Whitespace}
    IN  IF keep = {} THEN <<>>
        ELSE SubSeq(s, CHOOSE i \in keep : \A k \in keep : i <= k,
                       CHOOSE i \in keep : \A k \in keep : k <= i)

startswith(s, prefix) ==
    Len(s) >= Len(prefix) /\ SubSeq(s, 1, Len(prefix)) = prefix

\* s[n:]
From(s, n) == SubSeq(s, n + 1, Len(s))

NonEmpty(s) == s # <<>>

\* [c.strip() for c in text.splitlines() if c.strip()]
StripAll(ls) == [i \in 1..Len(ls) |-> strip(ls[i])]

\* the same with "if c" for "if c.strip()": a line of blanks counts as a city
parse_cities_keep_blank(text) == SelectSeq(splitlines(text), NonEmpty)

parse_cities(text) == SelectSeq(StripAll(splitlines(text)), NonEmpty)

\* the days of one city taken for the days of the trip
total_days_one_city(ss) == ss.days

\* st.session_state["days"] * len([c for c in ...splitlines() if c.strip()])
total_days(ss) == ss.days * Len(SelectSeq(StripAll(splitlines(ss.cities)), NonEmpty))

----------------------------------------------------------------------------
(* textwrap.dedent: lines are what "\n" separates; a line of only spaces   *)
(* and tabs is emptied, and the longest run of spaces and tabs that begins *)
(* every other non-empty line is removed from the lines that begin with it.*)

IsBlankChar(c) == c = " " \/ c = TAB

Indent(line) ==
    LET other == {i \in 1..Len(line) : ~IsBlankChar(line[i])}
    IN  IF other = {} THEN line
        ELSE SubSeq(line, 1, (CHOOSE i \in other : \A k \in other : i <= k) - 1)

WhitespaceOnly(line) == line # <<>> /\ Indent(line) = line

CommonPrefix(a, b) ==
    LET same == {n \in 0..Len(a) : n <= Len(b) /\ SubSeq(a, 1, n) = SubSeq(b, 1, n)}
    IN  SubSeq(a, 1, CHOOSE n \in same : \A k \in same : k <= n)

RECURSIVE Margin(_, _)
Margin(margin, indents) ==
    IF indents = <<>> THEN margin
    ELSE Margin(CommonPrefix(margin, indents[1]), Tail(indents))

dedent(text) ==
    LET raw      == split(text, LF)
        lines    == [i \in 1..Len(raw) |-> IF WhitespaceOnly(raw[i]) THEN <<>> ELSE raw[i]]
        nonblank == SelectSeq(lines, NonEmpty)
        indents  == [i \in 1..Len(nonblank) |-> Indent(nonblank[i])]
        margin   == IF indents = <<>> THEN <<>> ELSE Margin(indents[1], Tail(indents))
        cut      == [i \in 1..Len(lines) |->
                       IF margin # <<>> /\ startswith(lines[i], margin)
                       THEN From(lines[i], Len(margin)) ELSE lines[i]]
    IN  join(<<LF>>, cut)

\* x or fallback
Or(x, fallback) == IF x # <<>> THEN x ELSE fallback

build_prompt(cities, days, interests, guardrails, num_people, ages) ==
    dedent(
        <<LF>>
        \o <<"Cities: ">> \o join(<<",", " ">>, cities) \o <<LF>>
        \o <<"Days per city: ", ToString(days), LF>>
        \o <<LF>>
        \o <<"Travel Group:", LF>>
        \o <<"- Number of people: ", ToString(num_people), LF>>
        \o <<"- Ages: ">> \o Or(ages, <<"Not specified">>) \o <<LF>>
        \o <<LF>>
        \o <<"Interests: ">>
             \o Or(join(<<",", " ">>, [i \in 1..Len(interests) |-> <<interests[i]>>]),
                   <<"General sightseeing">>) \o <<LF>>
        \o <<"Guardrails: ">> \o Or(guardrails, <<"None">>) \o <<LF>>
        \o <<LF>>
        \o <<"Guidelines:", LF>>
        \o <<"- Include kid-friendly or senior-friendly activities if applicable", LF>>
        \o <<"- Avoid physically demanding activities when younger kids or seniors are present", LF>>
        \o <<"- Balance rest and exploration", LF>>
        \o <<LF>>
        \o <<"Generate a practical itinerary.", LF>>)

----------------------------------------------------------------------------
(* The PDF.  A flowable is recorded by its class and the text it is given. *)

Spacer4 == [kind |-> "Spacer", text |-> <<>>]

\* the classifier with "##" for "## ": a deeper heading passes for a heading
Flowable_any_hashes(line) ==
    IF startswith(line, <<"#", "#">>)
    THEN [kind |-> "Heading2", text |-> From(line, 3)]
    ELSE IF startswith(line, <<"-", " ">>)
    THEN [kind |-> "ListFlowable", text |-> From(line, 2)]
    ELSE [kind |-> "Paragraph", text |-> Or(line, <<" ">>)]

Flowable(line) ==
    IF startswith(line, <<"#", "#", " ">>)
    THEN [kind |-> "Heading2", text |-> From(line, 3)]
    ELSE IF startswith(line, <<"-", " ">>)
    THEN [kind |-> "ListFlowable", text |-> From(line, 2)]
    ELSE [kind |-> "Paragraph", text |-> Or(line, <<" ">>)]

RECURSIVE FlowOf(_)
FlowOf(lines) ==
    IF lines = <<>> THEN <<>>
    ELSE <<Flowable(lines[1]), Spacer4>> \o FlowOf(Tail(lines))

markdown_to_flowables(md_text_in) == FlowOf(splitlines(md_text_in))

\* the story doc.build() is given: title, spacer, time stamp, spacer, the text
write_pdf(markdown_text) ==
    <<[kind |-> "Title", text |-> <<"AI Travel Guide Plan">>],
      [kind |-> "Spacer", text |-> <<>>],
      [kind |-> "Normal", text |-> <<"Generated: ", "now">>],
      [kind |-> "Spacer", text |-> <<>>]>>
    \o markdown_to_flowables(markdown_text)

----------------------------------------------------------------------------
(* The session.  st.session_state is a function from keys to values.       *)

DefaultDays == 3

DefaultDailyBudget == 300

DefaultNumPeople == 1

setdefault(ss, key, value) ==
    IF key \in DOMAIN ss THEN ss ELSE ss @@ (key :> value)

init_state(ss) ==
    LET s1 == setdefault(ss, "cities", <<>>)
        s2 == setdefault(s1, "days", DefaultDays)
        s3 == setdefault(s2, "interests", <<>>)
        s4 == setdefault(s3, "guardrails", <<>>)
        s5 == setdefault(s4, "daily_budget", DefaultDailyBudget)
        s6 == setdefault(s5, "num_people", DefaultNumPeople)
        s7 == setdefault(s6, "ages", <<>>)
    IN  setdefault(s7, "plan_md", <<>>)

\* st.session_state.clear()
Cleared == [k \in {} |-> <<>>]

\* the callback without st.session_state.clear(): setdefault changes nothing
reset_all_no_clear(ss) == init_state(ss)

reset_all(ss) == init_state(Cleared)

----------------------------------------------------------------------------
(* The external service.  A response is a completion with its content, or  *)
(* a failure: the client raises on a network, authentication or rate limit *)
(* error, and choices[0] raises on a response without choices.             *)

ErrorKinds == {"network", "authentication", "rate_limit", "malformed"}

PlanA == <<"#", "#", " ", "R", LF, "-", " ", "m", LF, "-", " ", "e">>

PlanB == <<"p", CR, LF, "#", "#", "#", " ", "D", LF>>

Contents == {<<>>, PlanA, PlanB}

Responses ==
    [status : {"ok"}, content : Contents, error : {"none"}]
      \cup [status : {"error"}, content : {<<>>}, error : ErrorKinds]

generate_itinerary(prompt_in, response) ==
    IF response.status = "ok"
    THEN [raised |-> FALSE, value |-> response.content, error |-> "none"]
    ELSE [raised |-> TRUE, value |-> <<>>, error |-> response.error]

----------------------------------------------------------------------------
(* What the user can enter, and the bound on the service's call counter.   *)

MaxCalls == 2

CityInputs ==
    { <<>>,
      <<" ", LF, TAB, CR, LF>>,
      <<"R">>,
      <<" ", "R", LF, LF, "P", " ">>,
      <<"R", CR, LF, "P", LF, "M">> }

FormInputs ==
    { [days |-> 3, num_people |-> 1, ages |-> <<>>, interests |-> <<>>,
       guardrails |-> <<>>, daily_budget |-> 300],
      [days |-> 3, num_people |-> 2, ages |-> <<"5">>, interests |-> <<"Museums">>,
       guardrails |-> <<"g">>, daily_budget |-> 300],
      [days |-> 9, num_people |-> 1, ages |-> <<>>, interests |-> <<"Museums", "Nature">>,
       guardrails |-> <<"a", LF, " ", LF, "b">>, daily_budget |-> 56] }

\* estimate_budget is a pure function: the model evaluates it once for each
\* argument list the script can pass it (lines 264-268) and keeps the results
EstimatesOf(mode) ==
    [a \in {<<total_days([days |-> f.days, cities |-> c]), f.daily_budget,
                f.num_people>> : f \in FormInputs, c \in CityInputs}
       |-> estimate_budget(mode, a[1], a[2], a[3])]

----------------------------------------------------------------------------
(* One run of the script.  An element of the page is recorded by the call  *)
(* that makes it and the value it is given.                                *)

El(kind, body) == [kind |-> kind, body |-> body]

PdfOutcomes == {"ok", "build_raises", "open_raises"}

\* the output section with the display inside the try block, after the PDF
Output_pdf_first(ss, table, pdf, file) ==
    IF ss.plan_md = <<>>
    THEN [page |-> <<>>, file |-> file]
    ELSE LET est == table[<<total_days(ss), ss.daily_budget, ss.num_people>>]
             shown ==
                 <<El("success", "Travel plan generated!"),
                   El("subheader", "AI Itinerary"),
                   El("markdown", ss.plan_md),
                   El("divider", ""),
                   El("subheader", "Budget Estimate")>>
                 \o [i \in 1..Len(est.breakdown) |-> El("write", est.breakdown[i])]
                 \o <<El("write", [key |-> "Total Estimated Cost", value |-> est.total])>>
             story == write_pdf(ss.plan_md)
         IN  CASE pdf = "ok" ->
                    [page |-> shown \o <<El("download_button", story)>>, file |-> story]
               [] pdf = "build_raises" ->
                    [page |-> <<El("error", "PDF generation failed")>>, file |-> file]
               [] pdf = "open_raises" ->
                    [page |-> <<El("error", "PDF generation failed")>>, file |-> story]

\* lines 250-285: the output section; a "write" element holds the key and
\* the float that the f-string formats with two decimals
Output(ss, table, pdf, file) ==
    IF ss.plan_md = <<>>
    THEN [page |-> <<>>, file |-> file]
    ELSE LET est == table[<<total_days(ss), ss.daily_budget, ss.num_people>>]
             shown ==
                 <<El("success", "Travel plan generated!"),
                   El("subheader", "AI Itinerary"),
                   El("markdown", ss.plan_md),
                   El("divider", ""),
                   El("subheader", "Budget Estimate")>>
                 \o [i \in 1..Len(est.breakdown) |-> El("write", est.breakdown[i])]
                 \o <<El("write", [key |-> "Total Estimated Cost", value |-> est.total])>>
             story == write_pdf(ss.plan_md)
         IN  CASE pdf = "ok" ->
                    [page |-> shown \o <<El("download_button", story)>>, file |-> story]
               [] pdf = "build_raises" ->
                    [page |-> shown \o <<El("error", "PDF generation failed")>>,
                     file |-> file]
               [] pdf = "open_raises" ->
                    [page |-> shown \o <<El("error", "PDF generation failed")>>,
                     file |-> story]

\* lines 230-291: the script after the form, for the widget values in ss
Script(ss, sub, response, table, pdf, file) ==
    LET cities == parse_cities(ss.cities)
        call   == sub /\ cities # <<>>
        text   == build_prompt(cities, ss.days, ss.interests, ss.guardrails,
                               ss.num_people, ss.ages)
        gen    == generate_itinerary(text, response)
    IN  IF call /\ gen.raised
        THEN [ss |-> ss, page |-> <<El("exception", gen.error)>>,
              request |-> <<text>>, file |-> file]
        ELSE LET ss2 == IF call THEN [ss EXCEPT !.plan_md = gen.value] ELSE ss
                 out == Output(ss2, table, pdf, file)
             IN  [ss |-> ss2,
                  page |-> (IF sub /\ cities = <<>>
                            THEN <<El("warning", "Please enter at least one city.")>>
                            ELSE <<>>)
                           \o out.page
                           \o <<El("divider", ""), El("button", "Reset Form")>>,
                  request |-> IF call THEN <<text>> ELSE <<>>,
                  file |-> out.file]

Shows(kind) == \E i \in 1..Len(page) : page[i].kind = kind

----------------------------------------------------------------------------
\* the outcomes that a run over ss can meet
ResponsesFor(ss, sub) ==
    IF sub /\ parse_cities(ss.cities) # <<>> THEN Responses
    ELSE {[status |-> "ok", content |-> <<>>, error |-> "none"]}

PdfOutcomesFor(ss, sub) ==
    IF ss.plan_md # <<>> \/ (sub /\ parse_cities(ss.cities) # <<>>)
    THEN PdfOutcomes ELSE {"ok"}

\* how a call ended, for the service's record
CallStatus(response) ==
    IF response.status = "error" THEN "error"
    ELSE IF response.content = <<>> THEN "empty" ELSE "ok"

Run(ss, how) ==
    \E response \in ResponsesFor(ss, how = "submit") :
    \E pdf \in PdfOutcomesFor(ss, how = "submit") :
    \E r \in {Script(ss, how = "submit", response, estimates, pdf, pdf_file)} :
        /\ session_state' = r.ss
        /\ trigger' = how
        /\ page' = r.page
        /\ request' = r.request
        /\ calls' = calls + Len(r.request)
        /\ last_call' = IF r.request # <<>> THEN CallStatus(response) ELSE last_call
        /\ pdf_file' = r.file
        /\ UNCHANGED <<interpreter, estimates, budget_args, budget_out, md_text,
                       flow, prompt_args, prompt, applied>>

\* the form is submitted: the widgets' values go to the session state and
\* the script runs with submitted = True
Submit ==
    \E c \in CityInputs : \E f \in FormInputs :
        /\ parse_cities(c) # <<>> => calls < MaxCalls
        /\ Run([session_state EXCEPT !.cities = c, !.days = f.days,
                   !.num_people = f.num_people, !.ages = f.ages,
                   !.interests = f.interests, !.guardrails = f.guardrails,
                   !.daily_budget = f.daily_budget], "submit")

\* any other interaction (the download button, a rerun) runs the script again
Rerun == Run(session_state, "rerun")

\* the reset button, when the last run got as far as rendering it: the
\* callback reset_all runs, then the script
Reset ==
    /\ Shows("button")
    /\ Run(reset_all(session_state), "reset")

submitted == trigger = "submit"

\* the variables of the pure functions' specifications, at rest
BudgetIdle == budget_args = <<>> /\ budget_out = <<>>

RenderIdle == md_text = <<>> /\ flow = <<>>

PromptIdle == prompt_args = <<>> /\ prompt = <<>>

\* the session after the first script run
SessionLoaded ==
    /\ session_state = init_state(Cleared)
    /\ trigger = "rerun"
    /\ page = <<El("divider", ""), El("button", "Reset Form")>>
    /\ request = <<>>
    /\ calls = 0
    /\ last_call = "none"
    /\ pdf_file = <<>>

Init ==
    /\ interpreter \in SumModes
    /\ estimates = EstimatesOf(interpreter)
    /\ SessionLoaded
    /\ BudgetIdle /\ RenderIdle /\ PromptIdle
    /\ applied = FALSE

Next == Submit \/ Rerun \/ Reset

Spec == Init /\ [][Next]_vars

SessionIdle == UNCHANGED <<session_state, trigger, page, request, calls, last_call,
                           pdf_file, interpreter, estimates>>

----------------------------------------------------------------------------
(* estimate_budget on its own: the arguments the script gives it, for      *)
(* every entry of the form within the widgets' limits taken below.         *)

DayInputs == {1, 3, 9, 14}

BudgetInputs == {50, 51, 56, 300, 1000}

PeopleInputs == {1, 2, 20}

BudgetInit ==
    /\ interpreter \in SumModes
    /\ estimates = EstimatesOf(interpreter)
    /\ SessionLoaded
    /\ budget_args \in [cities : CityInputs, days : DayInputs,
                        daily_budget : BudgetInputs, num_people : PeopleInputs]
    /\ budget_out = <<>>
    /\ RenderIdle /\ PromptIdle
    /\ applied = FALSE

Estimate ==
    /\ ~applied
    /\ applied' = TRUE
    /\ budget_out' = estimate_budget(interpreter, total_days(budget_args),
                                     budget_args.daily_budget, budget_args.num_people)
    /\ UNCHANGED <<budget_args, md_text, flow, prompt_args, prompt>>
    /\ SessionIdle

BudgetNext == Estimate

SpecBudget == BudgetInit /\ [][BudgetNext]_vars

----------------------------------------------------------------------------
(* markdown_to_flowables on its own: the text is up to MaxSegments pieces, *)
(* each a line's content and a line end (or none).                         *)

MaxSegments == 3

LineContents ==
    { <<>>,
      <<"#", "#", " ", "H">>,
      <<"-", " ", "b">>,
      <<"#", "#", "#", " ", "D">> }

LineEnds == { <<>>, <<LF>>, <<CR>>, <<LS>>, <<FF>> }

Segments == {c \o e : c \in LineContents, e \in LineEnds}

RECURSIVE Texts(_)
Texts(n) ==
    IF n = 0 THEN {<<>>}
    ELSE LET shorter == Texts(n - 1)
         IN  shorter \cup {t \o g : t \in shorter, g \in Segments}

RenderInit ==
    /\ interpreter \in {"sequential"}
    /\ estimates = <<>>
    /\ SessionLoaded
    /\ BudgetIdle /\ PromptIdle
    /\ md_text \in Texts(MaxSegments)
    /\ flow = <<>>
    /\ applied = FALSE

Render ==
    /\ ~applied
    /\ applied' = TRUE
    /\ flow' = markdown_to_flowables(md_text)
    /\ UNCHANGED <<budget_args, budget_out, md_text, prompt_args, prompt>>
    /\ SessionIdle

RenderNext == Render

SpecRender == RenderInit /\ [][RenderNext]_vars

----------------------------------------------------------------------------
(* build_prompt on its own: the cities are those the script passes, the    *)
(* other fields what the form lets the user enter.                         *)

InterestInputs ==
    { <<>>, <<"Museums">>, <<"Food & Cuisine">>, <<"Museums", "Nature">> }

GuardrailInputs ==
    { <<>>, <<"g">>, <<" ">>, <<"a", LF, " ", LF, "b">>, <<" ", "x", LF, " ", "y">> }

AgeInputs == { <<>>, <<"5">>, <<"5", ",", " ", "6", "0">> }

PromptInit ==
    /\ interpreter \in {"sequential"}
    /\ estimates = <<>>
    /\ SessionLoaded
    /\ BudgetIdle /\ RenderIdle
    /\ prompt_args \in [cities : {parse_cities(c) : c \in CityInputs} \ {<<>>},
                        days : {DefaultDays}, interests : InterestInputs,
                        guardrails : GuardrailInputs, num_people : {DefaultNumPeople},
                        ages : AgeInputs]
    /\ prompt = <<>>
    /\ applied = FALSE

BuildPrompt ==
    /\ ~applied
    /\ applied' = TRUE
    /\ prompt' = build_prompt(prompt_args.cities, prompt_args.days,
                              prompt_args.interests, prompt_args.guardrails,
                              prompt_args.num_people, prompt_args.ages)
    /\ UNCHANGED <<budget_args, budget_out, md_text, flow, prompt_args>>
    /\ SessionIdle

PromptNext == BuildPrompt

SpecPrompt == PromptInit /\ [][PromptNext]_vars

----------------------------------------------------------------------------
(* Properties of the controller, under Spec.                               *)

ShowsIn(pg, kind) == \E i \in 1..Len(pg) : pg[i].kind = kind

\* a cities input with no non-blank line: every character is white space
AllBlank(text) == \A i \in 1..Len(text) : text[i] \in Whitespace

\* the budget estimate is on the page
ShowsBudget == Shows("write")

\* C1: in a script run whose submitted city list is empty, neither the
\* generation nor the budget estimation runs: no request is sent and no
\* budget line is written
C1_NoEstimationWithoutCities ==
    (submitted /\ AllBlank(session_state.cities))
        => (request = <<>> /\ ~ShowsBudget)

\* C2: when the last generation call failed or returned nothing, no
\* itinerary text is on the page, in that run and in every later one until
\* a call succeeds, and the run that made the call reports the failure
C2_FailureReportedNoItinerary ==
    (last_call \in {"error", "empty"})
        => /\ ~Shows("markdown")
           /\ request # <<>> => (Shows("exception") \/ Shows("error"))

\* C3: a submission whose cities input has no non-blank line shows the
\* warning and sends nothing to the service: the number of recorded calls
\* is the one before the submission
C3_BlankCitiesWarnNoCall ==
    [][(trigger' = "submit" /\ AllBlank(session_state'.cities))
          => /\ ShowsIn(page', "warning")
             /\ request' = <<>>
             /\ calls' = calls]_vars

\* a blank submission made after the service has recorded calls
C3_Witness ==
    /\ submitted
    /\ session_state.cities # <<>> /\ AllBlank(session_state.cities)
    /\ Shows("warning")
    /\ calls > 0

\* C4: after reset_all every field has its default (cities empty, days 3,
\* num_people 1, daily_budget 300, interests, guardrails, ages and plan_md
\* empty), and the run that follows shows no itinerary, budget or PDF
C4_ResetRestoresDefaults ==
    trigger = "reset"
        => /\ DOMAIN session_state = {"cities", "days", "num_people", "daily_budget",
                                      "interests", "guardrails", "ages", "plan_md"}
           /\ session_state.cities = <<>>
           /\ session_state.days = 3
           /\ session_state.num_people = 1
           /\ session_state.daily_budget = 300
           /\ session_state.interests = <<>>
           /\ session_state.guardrails = <<>>
           /\ session_state.ages = <<>>
           /\ session_state.plan_md = <<>>
           /\ ~Shows("markdown") /\ ~ShowsBudget
           /\ ~Shows("download_button") /\ ~Shows("error")

\* a reset made after an itinerary was generated and its PDF written
C4_Witness ==
    /\ trigger = "reset"
    /\ last_call = "ok"
    /\ pdf_file # <<>>

\* the page shows the itinerary pl, then the budget's total, then the PDF
\* error, and ends with the reset button
ErrorAfterDisplay(pg, pl) ==
    /\ \E i, j, k \in 1..Len(pg) :
          /\ i < j /\ j < k
          /\ pg[i].kind = "markdown" /\ pg[i].body = pl
          /\ pg[j].kind = "write" /\ pg[j].body.key = "Total Estimated Cost"
          /\ pg[k].kind = "error" /\ pg[k].body = "PDF generation failed"
    /\ ~ShowsIn(pg, "exception")
    /\ pg[Len(pg)].kind = "button"

\* C5: when the PDF step fails in a run with a stored itinerary, the run
\* shows the PDF error (not the generation's exception) after the itinerary
\* and the budget, which stay on the page, it reaches the reset button, and
\* the failure leaves the stored itinerary as it was
C5_PdfFailureKeepsDisplay ==
    [][ShowsIn(page', "error")
          => /\ session_state'.plan_md # <<>>
             /\ ErrorAfterDisplay(page', session_state'.plan_md)
             /\ request' = <<>> => session_state'.plan_md = session_state.plan_md]_vars

\* a PDF failure in the run of a submission that generated the itinerary
C5_Witness ==
    /\ submitted /\ request # <<>>
    /\ Shows("error") /\ Shows("markdown")
    /\ page[Len(page)].kind = "button"

----------------------------------------------------------------------------
(* Properties of markdown_to_flowables, under SpecRender.  The lines of a  *)
(* text are defined here from the positions of its line ends, without the  *)
(* model's splitlines.                                                     *)

\* position i of text ends a line: a boundary character, the "\n" of a
\* "\r\n" pair excepted
EndsLine(text, i) ==
    /\ text[i] \in LineBoundaries
    /\ ~(text[i] = LF /\ i > 1 /\ text[i - 1] = CR)

\* where the lines of text end; a last line without a line end ends after
\* the text
LineEndsOf(text) ==
    {i \in 1..Len(text) : EndsLine(text, i)}
      \cup (IF text # <<>> /\ text[Len(text)] \notin LineBoundaries
            THEN {Len(text) + 1} ELSE {})

NthEnd(text, k) ==
    CHOOSE i \in LineEndsOf(text) :
        Cardinality({j \in LineEndsOf(text) : j <= i}) = k

NotBoundary(c) == c \notin LineBoundaries

\* the k-th line, without its end
LineAt(text, k) ==
    SelectSeq(SubSeq(text, IF k = 1 THEN 1 ELSE NthEnd(text, k - 1) + 1,
                     NthEnd(text, k) - 1),
              NotBoundary)

IsBlock(f) == f.kind # "Spacer"

\* C6, as the specification states it: the lines given to the classifier
\* are those that "\n" alone separates, empty ones included, and there is
\* one block for each
C6_SplitOnNewlineOnly ==
    applied => flow = FlowOf(split(md_text, LF))

\* C6: the lines given to the classifier are those of str.splitlines():
\* every line boundary character ends a line, "\r\n" ends one line, and a
\* final line end opens no further line; there is one block for each of
\* these lines, made from the line's text, and no block holds a boundary
C6_SplitAtEveryBoundary ==
    applied =>
        LET blocks == SelectSeq(flow, IsBlock)
        IN  /\ Len(blocks) = Cardinality(LineEndsOf(md_text))
            /\ \A k \in 1..Len(blocks) :
                  /\ \A i \in 1..Len(blocks[k].text) : NotBoundary(blocks[k].text[i])
                  /\ \/ \E n \in {0, 2, 3} : blocks[k].text = From(LineAt(md_text, k), n)
                     \/ LineAt(md_text, k) = <<>> /\ blocks[k].text = <<" ">>

\* a text with a "\r", a Unicode line separator and a final line end
C6_Witness ==
    /\ applied
    /\ \E i, j \in 1..Len(md_text) : md_text[i] = CR /\ md_text[j] = LS
    /\ md_text # <<>> /\ md_text[Len(md_text)] = LF
    /\ Len(flow) = 2 * MaxSegments

KindOf(line) ==
    IF Len(line) >= 3 /\ line[1] = "#" /\ line[2] = "#" /\ line[3] = " "
    THEN "Heading2"
    ELSE IF Len(line) >= 2 /\ line[1] = "-" /\ line[2] = " "
    THEN "ListFlowable"
    ELSE "Paragraph"

TextOf(line) ==
    CASE KindOf(line) = "Heading2"     -> SubSeq(line, 4, Len(line))
      [] KindOf(line) = "ListFlowable" -> SubSeq(line, 3, Len(line))
      [] OTHER -> IF line = <<>> THEN <<" ">> ELSE line

HeadingAndTwoBullets ==
    <<"#", "#", " ", "H", LF, "-", " ", "b", LF, "-", " ", "b">>

\* C7: markdown_to_flowables gives, in the order of the lines, one block
\* for each line and a spacer after it (twice as many flowables as lines):
\* a heading for a line that begins with "## ", a list of one item for each
\* line that begins with "- ", a paragraph for any other line; a heading
\* line and two bullet lines give a heading and two lists of one item
C7_OneBlockAndSpacerPerLine ==
    applied =>
        LET n == Cardinality(LineEndsOf(md_text))
        IN  /\ Len(flow) = 2 * n
            /\ \A k \in 1..n :
                  /\ flow[2 * k - 1] = [kind |-> KindOf(LineAt(md_text, k)),
                                        text |-> TextOf(LineAt(md_text, k))]
                  /\ flow[2 * k].kind = "Spacer"
            /\ md_text = HeadingAndTwoBullets =>
                  [i \in 1..Len(flow) |-> flow[i].kind]
                     = <<"Heading2", "Spacer", "ListFlowable", "Spacer",
                         "ListFlowable", "Spacer">>

\* the heading line and the two bullet lines, rendered
C7_Witness ==
    /\ applied
    /\ md_text = HeadingAndTwoBullets
    /\ Len(flow) = 6

----------------------------------------------------------------------------
(* Properties of estimate_budget, under SpecBudget.  The amounts are       *)
(* compared with the rational numbers they stand for in exact arithmetic.  *)

\* the number of lines of text that are not blank
NonBlankLines(text) ==
    Cardinality({k \in 1..Cardinality(LineEndsOf(text)) : ~AllBlank(LineAt(text, k))})

\* dailyBudgetPerPerson * numPeople * totalDays for the inputs a
Product(a) == a.daily_budget * a.num_people * (a.days * NonBlankLines(a.cities))

\* the float v and the number num/den, both times 2^sh * den, sh such that
\* both are whole numbers
Scaled(v, num, den) ==
    LET sh == IF v.e < 0 THEN 0 - v.e ELSE 0
    IN  [v |-> BigMul(ShiftLeft(v.m, v.e + sh), NatLimbs(den)),
         t |-> ShiftLeft(NatLimbs(num), sh)]

Distance(a, b) == IF BigCmp(a, b) >= 0 THEN BigSub(a, b) ELSE BigSub(b, a)

\* v is num/den
Exactly(v, num, den) ==
    LET x == Scaled(v, num, den) IN v.s = 0 /\ x.v = x.t

\* v is num/den up to the rounding of a few float operations: the relative
\* error is at most 2^-(Precision - 3)
Within(v, num, den) ==
    LET x == Scaled(v, num, den)
    IN  v.s = 0 /\ BigCmp(ShiftLeft(Distance(x.v, x.t), Precision - 3), x.t) <= 0

\* the sum of the amounts of a breakdown and the total, both times 2^sh
AmountsAndTotal(out) ==
    LET all == [i \in 1..(Len(out.breakdown) + 1) |->
                  IF i <= Len(out.breakdown) THEN out.breakdown[i].value ELSE out.total]
        es  == {all[i].e : i \in 1..Len(all)}
        low == CHOOSE e \in es : \A f \in es : e <= f
        RECURSIVE Sum(_)
        Sum(i) == IF i = 0 THEN <<>>
                  ELSE BigAdd(Sum(i - 1), ShiftLeft(all[i].m, all[i].e - low))
    IN  [amounts |-> Sum(Len(out.breakdown)),
         total |-> ShiftLeft(out.total.m, out.total.e - low)]

TwoCitiesThreeDaysTwoPeople(a) ==
    /\ NonBlankLines(a.cities) = 2 /\ a.days = 3
    /\ a.num_people = 2 /\ a.daily_budget = 300

ScenarioAmounts ==
    <<IntToFloat(1440), IntToFloat(900), IntToFloat(540), IntToFloat(720)>>

\* C8, as the specification states it: the total is the sum of the four
\* amounts and is dailyBudgetPerPerson * numPeople * totalDays, totalDays
\* being the days per city times the number of non-blank city lines
C8_TotalIsProduct ==
    applied =>
        /\ Exactly(budget_out.total, Product(budget_args), 1)
        /\ AmountsAndTotal(budget_out).total = AmountsAndTotal(budget_out).amounts

\* C8: the total is the sum of the four amounts and is
\* dailyBudgetPerPerson * numPeople * totalDays, both within the floating
\* point tolerance, totalDays being the days per city times the number of
\* non-blank city lines; 2 cities, 3 days per city, 2 people and a daily
\* budget of 300 give exactly 3600 and 1440, 900, 540, 720
C8_TotalWithinTolerance ==
    applied =>
        LET x == AmountsAndTotal(budget_out)
        IN  /\ Within(budget_out.total, Product(budget_args), 1)
            /\ BigCmp(ShiftLeft(Distance(x.total, x.amounts), Precision - 3),
                      x.amounts) <= 0
            /\ TwoCitiesThreeDaysTwoPeople(budget_args) =>
                  /\ budget_out.total = IntToFloat(3600)
                  /\ [i \in 1..Len(budget_out.breakdown) |-> budget_out.breakdown[i].value]
                        = ScenarioAmounts

\* the estimate for 2 cities, 3 days per city, 2 people, 300 a day
C8_Witness ==
    /\ applied
    /\ TwoCitiesThreeDaysTwoPeople(budget_args)
    /\ budget_out.total = IntToFloat(3600)

\* the weights in per cent, in the order of the categories
Percent == <<40, 25, 15, 20>>

\* C9, as the specification states it: the four categories, each amount
\* non-negative and exactly its weight of the product
C9_AmountsAreWeights ==
    applied =>
        /\ [i \in 1..Len(budget_out.breakdown) |-> budget_out.breakdown[i].key]
              = <<"Accommodation", "Food", "Transport", "Activities">>
        /\ \A i \in 1..Len(budget_out.breakdown) :
              Exactly(budget_out.breakdown[i].value,
                      Percent[i] * Product(budget_args), 100)

\* C9: estimate_budget returns the four categories Accommodation, Food,
\* Transport, Activities, each amount is non-negative and is 40, 25, 15 and
\* 20 per cent of dailyBudgetPerPerson * numPeople * totalDays within the
\* floating point tolerance
C9_AmountsWithinTolerance ==
    applied =>
        /\ [i \in 1..Len(budget_out.breakdown) |-> budget_out.breakdown[i].key]
              = <<"Accommodation", "Food", "Transport", "Activities">>
        /\ \A i \in 1..Len(budget_out.breakdown) :
              Within(budget_out.breakdown[i].value,
                     Percent[i] * Product(budget_args), 100)

\* an estimate with an amount that is not exactly its weight of the product
C9_Witness ==
    /\ applied
    /\ Product(budget_args) > 0
    /\ \E i \in 1..Len(budget_out.breakdown) :
          ~Exactly(budget_out.breakdown[i].value,
                   Percent[i] * Product(budget_args), 100)

----------------------------------------------------------------------------
(* Properties of build_prompt, under SpecPrompt.                           *)

\* the items, separated by a comma and a space
RECURSIVE CommaSeparated(_)
CommaSeparated(items) ==
    IF items = <<>> THEN <<>>
    ELSE IF Len(items) = 1 THEN items[1]
    ELSE items[1] \o <<",", " ">> \o CommaSeparated(Tail(items))

\* the text has the field named by label, and value follows the label up
\* to the end of a line
FieldIs(text, label, value) ==
    \E i \in 1..Len(text) :
        /\ text[i] = label
        /\ i + Len(value) + 1 <= Len(text)
        /\ SubSeq(text, i + 1, i + Len(value)) = value
        /\ text[i + Len(value) + 1] = LF

\* C10: the request text has "Not specified" in the ages field when ages
\* is empty, "General sightseeing" in the interests field when there are no
\* interests, "None" in the guardrails field when guardrails is empty; a
\* field that is not empty has its value verbatim, and the cities are
\* separated by commas in the order of the input
C10_FieldsVerbatimOrFallback ==
    applied =>
        /\ FieldIs(prompt, "- Ages: ",
                   IF prompt_args.ages = <<>> THEN <<"Not specified">>
                   ELSE prompt_args.ages)
        /\ FieldIs(prompt, "Interests: ",
                   IF prompt_args.interests = <<>> THEN <<"General sightseeing">>
                   ELSE CommaSeparated([i \in 1..Len(prompt_args.interests) |->
                                           <<prompt_args.interests[i]>>]))
        /\ FieldIs(prompt, "Guardrails: ",
                   IF prompt_args.guardrails = <<>> THEN <<"None">>
                   ELSE prompt_args.guardrails)
        /\ FieldIs(prompt, "Cities: ", CommaSeparated(prompt_args.cities))

====
